---- MODULE Spec2Model ----
(***************************************************************************)
(* A model of serial_server.py: the SerialServer class, its life cycle     *)
(* (closed <-> open <-> serving), the selector driven serving loop and the *)
(* two handlers process_socket and process_serial.                         *)
(*                                                                         *)
(* Bytes are one-letter strings: "a" and "b" are payload bytes, "r" and    *)
(* "n" stand for carriage return and line feed.  A bytes object is a       *)
(* sequence of such letters.                                               *)
(***************************************************************************)
EXTENDS Integers, Sequences, FiniteSets, TLC

(***************************************************************************)
(* Bounds of the model.                                                    *)
(***************************************************************************)
\* client connections ever accepted
MaxConns == 2
\* bytes all clients together ever send (while the history is recorded)
MaxBytes == 3
\* the same, in the specification of the life cycle
LifeBytes == 1
\* end-of-line markers all clients together ever send
MaxLines == 2
\* bytes waiting in one connection's receive buffer of the kernel
MaxInbox == 2
\* bytes in one connection's out_buf before the device only times out
MaxOut == 3
\* greatest configured serial timeout, in units of the 0.1 s retry sleep
MaxTimeout == 2
\* iterations of the acquisition loop of open() that are enumerated
MaxAttempts == 2

(***************************************************************************)
(* Program constants.                                                      *)
(***************************************************************************)
EVENT_READ == 1
EVENT_WRITE == 2

\* mask & bit
HasEvent(mask, bit) == (mask \div bit) % 2 = 1

Conns == 1..MaxConns
\* the objects a selector can hold: the listening socket, the serial device
\* and the client sockets (named by the number of their connection)
ListenSock == <<"sock">>
SerialDev == <<"serial">>
ClientSock(c) == <<"client", c>>
FileObjs == {ListenSock, SerialDev} \cup {ClientSock(c) : c \in Conns}

(***************************************************************************)
(* bytes / bytearray operations                                            *)
(***************************************************************************)
\* s[i:] of Python, i counted from 0
Slice(s, i) == SubSeq(s, i + 1, Len(s))

\* bytes.find(sep), 1-based; 0 when sep does not occur
Find(s, sep) ==
    LET hits == {i \in 1..(Len(s) - Len(sep) + 1) :
                    SubSeq(s, i, i + Len(sep) - 1) = sep}
    IN  IF hits = {} THEN 0 ELSE CHOOSE i \in hits : \A j \in hits : i <= j

\* bytearray.split(sep): the list of the segments between the occurrences
\* of sep, found from the left without overlap; never empty
RECURSIVE split(_, _)
split(s, sep) ==
    LET i == Find(s, sep)
    IN  IF i = 0 THEN <<s>>
        ELSE <<SubSeq(s, 1, i - 1)>> \o split(Slice(s, i - 1 + Len(sep)), sep)

\* bytes.replace(old, new): every occurrence, from the left without overlap
RECURSIVE replace(_, _, _)
replace(s, old, new) ==
    LET i == Find(s, old)
    IN  IF i = 0 THEN s
        ELSE SubSeq(s, 1, i - 1) \o new
                \o replace(Slice(s, i - 1 + Len(old)), old, new)

\* chunks.pop(): the last element, and the list without it
Last(q) == q[Len(q)]
Front(q) == SubSeq(q, 1, Len(q) - 1)

\* the elements of a list of byte strings, joined
RECURSIVE Concat(_)
Concat(q) == IF q = <<>> THEN <<>> ELSE Head(q) \o Concat(Tail(q))

\* sequences over S of length at most n
RECURSIVE SeqsUpTo(_, _)
SeqsUpTo(S, n) ==
    IF n = 0 THEN {<<>>}
    ELSE LET shorter == SeqsUpTo(S, n - 1)
         IN  shorter \cup {Append(q, x) : q \in shorter, x \in S}

(***************************************************************************)
(* The state.                                                              *)
(***************************************************************************)
VARIABLES
    \* configuration (constructor arguments, syntax of the two sides)
    eol_ser, eol_sock, timeout, alphabet,
    \* SerialServer fields
    is_open, serving, shutdown_request,
    sel, serial, sock, ser_queue, clients,
    \* ClientBuffers of every connection
    in_buf, out_buf,
    \* serve_forever: where the serving thread is, and the rest of the
    \* batch of events select() returned
    pc, events,
    \* the last call or loop step and the exception it raised ("none")
    op, raised,
    \* the operating system and the peers: state of each client socket,
    \* connections waiting in the listen backlog, bytes sent by a
    \* client and not yet received, clients that have closed their end
    conn, backlog, inbox, eof,
    \* history, recorded while rec is TRUE: the commands appended to
    \* ser_queue and the places of those a clear() has discarded, the
    \* device transactions and what the device saw in the last of them,
    \* the bytes recv returned on each connection, the connections a
    \* command of which came in more than one recv, and the bytes send
    \* accepted on each connection
    rec, enq, gone, txn, last, rcvd, joined, sent

config == <<eol_ser, eol_sock, timeout, alphabet>>
fields == <<is_open, serving, shutdown_request, sel, serial, sock,
            ser_queue, clients>>
buffers == <<in_buf, out_buf>>
loop == <<pc, events>>
world == <<conn, backlog, inbox, eof>>
history == <<rec, enq, gone, txn, last, rcvd, joined, sent>>
vars == <<config, fields, buffers, loop, op, raised, world, history>>

\* the configurations the model is run with: eol_ser, eol_sock, the
\* serial timeout (in units of the 0.1 s sleep of open) and the bytes the
\* clients send
CrLf == [eol_ser |-> <<"r">>, eol_sock |-> <<"n">>, timeout |-> MaxTimeout,
         bytes |-> {"a", "n"}]
TwoByteEol == [eol_ser |-> <<"r">>, eol_sock |-> <<"r", "n">>, timeout |-> 1,
               bytes |-> {"r", "n"}]
NoGrace == [eol_ser |-> <<"r">>, eol_sock |-> <<"n">>, timeout |-> 0,
            bytes |-> {"a", "n"}]

\* the registrations of a selector with nothing registered: the event
\* mask of each object, 0 for an object that is not registered
NoKeys == [f \in FileObjs |-> 0]
\* self.sel = None, and a fresh DefaultSelector()
NoSelector == [live |-> FALSE, keys |-> NoKeys]
NewSelector == [live |-> TRUE, keys |-> NoKeys]

\* before the first device transaction
NoTransaction == [wrote |-> <<>>, reply |-> <<>>, active |-> FALSE]

\* __init__
InitFields ==
    /\ is_open = FALSE
    /\ serving = FALSE
    /\ shutdown_request = FALSE
    /\ serial = "None"
    /\ sock = "None"
    /\ sel = NoSelector
    /\ ser_queue = <<>>
    /\ clients = {}

InitRest(cf) ==
    /\ eol_ser = cf.eol_ser /\ eol_sock = cf.eol_sock /\ timeout = cf.timeout
    /\ alphabet = cf.bytes
    /\ in_buf = [c \in Conns |-> <<>>]
    /\ out_buf = [c \in Conns |-> <<>>]
    /\ pc = "idle"
    /\ events = {}
    /\ op = "init"
    /\ raised = "none"
    /\ conn = [c \in Conns |-> "new"]
    /\ backlog = 0
    /\ inbox = [c \in Conns |-> <<>>]
    /\ eof = [c \in Conns |-> FALSE]
    /\ enq = <<>>
    /\ gone = {}
    /\ txn = <<>>
    /\ last = NoTransaction
    /\ joined = {}
    /\ rcvd = [c \in Conns |-> <<>>]
    /\ sent = [c \in Conns |-> <<>>]

Init == InitFields /\ rec = TRUE /\ \E cf \in {CrLf, TwoByteEol} : InitRest(cf)

(***************************************************************************)
(* open(), close(), stop()                                                 *)
(***************************************************************************)
\* the places in enq of the commands that are in ser_queue
Queued == (Len(enq) - Len(ser_queue) + 1)..Len(enq)

\* what one pass of the acquisition loop can meet: Serial(...) succeeds,
\* raises OSError with errno EBUSY, or raises another OSError; dt is the
\* time the failed constructor took, in units of the sleep of the loop
AttemptOutcomes ==
    {[res |-> "ok", dt |-> 0], [res |-> "EBUSY", dt |-> 0],
     [res |-> "EOTHER", dt |-> 0], [res |-> "EOTHER", dt |-> 1]}

\* the time one failed pass takes: sleep(0.1) follows an EBUSY only
PassTime(o) == o.dt + (IF o.res = "EBUSY" THEN 1 ELSE 0)

\* the while loop of open(): outs are the outcomes of the passes to come,
\* now the time since time_i, exc the exception kept so far, n the passes
\* made.  done is FALSE when outs ends before the loop does.
RECURSIVE OpenLoop(_, _, _, _)
OpenLoop(outs, now, exc, n) ==
    IF ~(now < timeout)
    THEN [done |-> outs = <<>>, serial |-> "None", exc |-> exc, attempts |-> n]
    ELSE IF outs = <<>>
    THEN [done |-> FALSE, serial |-> "None", exc |-> exc, attempts |-> n]
    ELSE IF Head(outs).res = "ok"
    THEN [done |-> Tail(outs) = <<>>, serial |-> "open", exc |-> exc,
          attempts |-> n + 1]
    ELSE OpenLoop(Tail(outs), now + PassTime(Head(outs)), Head(outs).res, n + 1)

\* the body of open() when the server is not open: outs drives the
\* acquisition loop, bind_ok tells whether create_server can bind the port
OpenBody(outs, bind_ok) ==
    LET r == OpenLoop(outs, 0, "Exception", 0)
    IN  /\ r.done
        /\ ser_queue' = <<>>
        /\ gone' = gone \cup Queued
        /\ IF r.serial # "open"
           THEN /\ sel' = NewSelector
                /\ serial' = "None"
                /\ raised' = r.exc
                /\ UNCHANGED <<sock, is_open>>
           ELSE IF ~bind_ok \/ sock = "open"
           THEN /\ sel' = NewSelector
                /\ serial' = "open"
                /\ raised' = "OSError"
                /\ UNCHANGED <<sock, is_open>>
           ELSE /\ sel' = [live |-> TRUE,
                           keys |-> [NoKeys EXCEPT ![ListenSock] = EVENT_READ]]
                /\ serial' = "open"
                /\ sock' = "open"
                /\ is_open' = TRUE
                /\ raised' = "none"

open(outs, bind_ok) ==
    /\ op' = "open"
    /\ IF is_open
       THEN /\ outs = <<>> /\ bind_ok
            /\ raised' = "none"
            /\ UNCHANGED <<sel, serial, sock, ser_queue, is_open, gone>>
       ELSE OpenBody(outs, bind_ok)
    /\ UNCHANGED <<serving, shutdown_request, clients>>
    /\ UNCHANGED <<config, buffers, loop, world, rec, enq, txn, last, rcvd, joined, sent>>

\* the steps of close() that can raise OSError inside suppress(OSError);
\* "skip" stands for a call that does not reach the block
CloseFailures == {"none", "serial.close", "sock.shutdown"}

\* the suppress(OSError) block of close(): fail is the step that raises
CloseBody(fail) ==
    /\ sel' = NoSelector
    /\ IF fail = "serial.close"
       THEN UNCHANGED <<serial, ser_queue, sock, clients, conn, gone>>
       ELSE /\ serial' = "None"
            /\ ser_queue' = <<>>
            /\ gone' = gone \cup Queued
            /\ IF fail = "sock.shutdown"
               THEN UNCHANGED <<sock, clients, conn>>
               ELSE /\ sock' = "None"
                    /\ conn' = [c \in Conns |->
                                  IF c \in clients THEN "closed" ELSE conn[c]]
                    /\ clients' = {}

\* a slip: close() without the test of _serving
CloseWhileServing(fail) ==
    /\ op' = "close"
    /\ raised' = "none"
    /\ IF is_open
       THEN /\ fail \in CloseFailures \cup {"skip"}
            /\ CloseBody(IF fail = "skip" THEN "none" ELSE fail)
            /\ is_open' = FALSE
       ELSE /\ fail = "skip"
            /\ UNCHANGED <<sel, serial, sock, ser_queue, clients, conn, is_open, gone>>
    /\ UNCHANGED <<serving, shutdown_request>>
    /\ UNCHANGED <<config, buffers, loop, backlog, inbox, eof>>
    /\ UNCHANGED <<rec, enq, txn, last, rcvd, joined, sent>>

close(fail) ==
    /\ op' = "close"
    /\ IF serving
       THEN /\ fail = "skip"
            /\ raised' = "RuntimeError"
            /\ UNCHANGED <<fields, conn, gone>>
       ELSE /\ raised' = "none"
            /\ IF is_open
               THEN /\ fail \in CloseFailures
                    /\ CloseBody(fail)
                    /\ is_open' = FALSE
               ELSE /\ fail = "skip"
                    /\ UNCHANGED <<sel, serial, sock, ser_queue, clients,
                                   conn, is_open, gone>>
            /\ UNCHANGED <<serving, shutdown_request>>
    /\ UNCHANGED <<config, buffers, loop, backlog, inbox, eof>>
    /\ UNCHANGED <<rec, enq, txn, last, rcvd, joined, sent>>

\* a slip: stop() without the test of _serving
StopAlways(direct) ==
    /\ direct \/ serving
    /\ op' = "stop"
    /\ raised' = "none"
    /\ shutdown_request' = TRUE
    /\ UNCHANGED <<is_open, serving, sel, serial, sock, ser_queue, clients>>
    /\ UNCHANGED <<config, buffers, loop, world, history>>

\* direct is TRUE for a direct call and FALSE for handle_signals, which
\* calls stop() only when _serving is set
stop(direct) ==
    /\ direct \/ serving
    /\ op' = "stop"
    /\ raised' = "none"
    /\ shutdown_request' = (IF serving THEN TRUE ELSE shutdown_request)
    /\ UNCHANGED <<is_open, serving, sel, serial, sock, ser_queue, clients>>
    /\ UNCHANGED <<config, buffers, loop, world, history>>

(***************************************************************************)
(* The selector.                                                           *)
(***************************************************************************)
\* a & b on event masks
MaskAnd(a, b) ==
    (IF HasEvent(a, EVENT_READ) /\ HasEvent(b, EVENT_READ) THEN EVENT_READ ELSE 0)
    + (IF HasEvent(a, EVENT_WRITE) /\ HasEvent(b, EVENT_WRITE)
       THEN EVENT_WRITE ELSE 0)

\* what the operating system reports of each object: a listening socket is
\* readable when a connection waits, a client socket is readable when
\* bytes or the end of the stream wait and always writable, the serial
\* device is always writable; a closed socket reports nothing
Readiness(f) ==
    IF f = ListenSock THEN (IF sock = "open" /\ backlog > 0 THEN EVENT_READ ELSE 0)
    ELSE IF f = SerialDev THEN (IF serial = "open" THEN EVENT_WRITE ELSE 0)
    ELSE LET c == f[2]
         IN  IF conn[c] # "open" THEN 0
             ELSE (IF inbox[c] # <<>> \/ eof[c] THEN EVENT_READ ELSE 0)
                  + EVENT_WRITE

\* sel.select(): the (key, mask) pairs of the registered objects that are
\* ready for an event they are registered for
SelectEvents ==
    {<<f, MaskAnd(sel.keys[f], Readiness(f))>> :
        f \in {g \in FileObjs : MaskAnd(sel.keys[g], Readiness(g)) # 0}}

\* sel.register, sel.unregister, sel.modify; each raises KeyError when the
\* object is (or is not) registered already
CanRegister(f) == sel.keys[f] = 0
CanUnregister(f) == sel.keys[f] # 0
Register(s, f, ev) == [s EXCEPT !.keys[f] = ev]
\* a slip: a modify that changes nothing
ModifyNothing(s, f, ev) == s
Modify(s, f, ev) == [s EXCEPT !.keys[f] = ev]
\* a slip: an unregister that forgets nothing
UnregisterNothing(s, f) == s
Unregister(s, f) == [s EXCEPT !.keys[f] = 0]

(***************************************************************************)
(* serve_forever                                                           *)
(***************************************************************************)
\* the finally clause of serve_forever, leaving with exception exc (or
\* "none"): cl is the set self.clients, ib the receive buffers of the
\* kernel.  shut is the set of clients shut down and closed before a
\* shutdown() raised OSError and suppress() ended the loop; it is all of
\* cl when none raised.  A shutdown() can raise on a socket the peer has
\* dropped.
FinallyShut(cl) == {S \in SUBSET cl : S = cl \/ \E f \in cl \ S : eof[f]}

Finally(exc, cl, shut, ib) ==
    /\ conn' = [c \in Conns |-> IF c \in shut THEN "closed" ELSE conn[c]]
    /\ inbox' = [c \in Conns |-> IF c \in shut THEN <<>> ELSE ib[c]]
    /\ clients' = {}
    /\ serving' = FALSE
    /\ pc' = "idle"
    /\ events' = {}
    /\ raised' = exc

\* entering serve_forever: open() when not open, then _serving = True
serve_forever_enter(outs, bind_ok) ==
    /\ pc = "idle"
    /\ op' = "serve_forever"
    /\ IF is_open
       THEN /\ outs = <<>> /\ bind_ok
            /\ raised' = "none"
            /\ serving' = TRUE
            /\ pc' = "serving"
            /\ UNCHANGED <<sel, serial, sock, ser_queue, is_open, gone>>
       ELSE /\ OpenBody(outs, bind_ok)
            /\ serving' = is_open'
            /\ pc' = (IF is_open' THEN "serving" ELSE "idle")
    /\ events' = {}
    /\ UNCHANGED <<shutdown_request, clients>>
    /\ UNCHANGED <<config, buffers, world, rec, enq, txn, last, rcvd, joined, sent>>

\* the while test and sel.select(): a new batch of events
serve_forever_select ==
    /\ pc = "serving" /\ events = {} /\ ~shutdown_request
    /\ op' = "run"
    /\ raised' = "none"
    /\ events' = SelectEvents
    /\ UNCHANGED <<pc, config, fields, buffers, world, history>>

\* the while test fails: the loop ends and the finally clause runs
serve_forever_exit(shut) ==
    /\ pc = "serving" /\ events = {} /\ shutdown_request
    /\ op' = "run"
    /\ shut \in FinallyShut(clients)
    /\ Finally("none", clients, shut, inbox)
    /\ UNCHANGED <<is_open, shutdown_request, sel, serial, sock, ser_queue>>
    /\ UNCHANGED <<config, buffers, backlog, eof, history>>

\* the for loop meets the shutdown request: break
serve_forever_break ==
    /\ pc = "serving" /\ events # {} /\ shutdown_request
    /\ op' = "run"
    /\ raised' = "none"
    /\ events' = {}
    /\ UNCHANGED <<pc, config, fields, buffers, world, history>>

\* a handler raised exc: the exception leaves serve_forever through the
\* finally clause
Abort(exc, cl, shut, ib) ==
    /\ shut \in FinallyShut(cl)
    /\ Finally(exc, cl, shut, ib)
    /\ UNCHANGED <<is_open, shutdown_request, serial, sock>>
    /\ UNCHANGED <<config, backlog, eof>>

\* a slip: the for loop without the test of _shutdown_request
DispatchAll(e) ==
    /\ pc = "serving" /\ e \in events
    /\ op' = "run"

\* the for loop hands event e of the batch to a handler
Dispatch(e) ==
    /\ pc = "serving" /\ e \in events /\ ~shutdown_request
    /\ op' = "run"

\* the handler returned: the for loop goes on with the rest of the batch
Return(e) ==
    /\ events' = events \ {e}
    /\ raised' = "none"
    /\ UNCHANGED <<pc, is_open, serving, shutdown_request, serial, sock>>
    /\ UNCHANGED config

(***************************************************************************)
(* process_socket                                                          *)
(***************************************************************************)
\* the connection accept() returns: the next one never used
NextConn == CHOOSE c \in Conns : conn[c] = "new" /\ \A d \in 1..(c - 1) : conn[d] # "new"

\* listening socket: accept a client and register it for reading
process_socket_accept(e) ==
    /\ Dispatch(e)
    /\ e[1] = ListenSock /\ HasEvent(e[2], EVENT_READ)
    /\ conn' = [conn EXCEPT ![NextConn] = "open"]
    /\ backlog' = backlog - 1
    /\ clients' = clients \cup {NextConn}
    /\ sel' = Register(sel, ClientSock(NextConn), EVENT_READ)
    /\ Return(e)
    /\ UNCHANGED <<ser_queue, buffers, inbox, eof, history>>

\* a slip: received split without the bytes buffered before
ChunksOfReceived(buf, received) == split(received, eol_sock)

\* data.in_buf += received; chunks = data.in_buf.split(self.eol_sock)
Chunks(buf, received) == split(buf \o received, eol_sock)

\* for cmd in chunks: self.ser_queue.append((cmd, data))
RECURSIVE Submit(_, _, _)
Submit(queue, chunks, data) ==
    IF chunks = <<>> THEN queue
    ELSE Submit(Append(queue, [cmd |-> Head(chunks), conn |-> data]),
                Tail(chunks), data)

\* what recv, or the shutdown of a dead socket, can raise
RecvFaults == {"none", "recv", "shutdown"}

\* client socket, EVENT_READ: n is the number of bytes recv returns, fault
\* the call that raises OSError (possible once the peer is gone)
process_socket_recv(e, n, fault) ==
    /\ Dispatch(e)
    /\ e[1] \in {ClientSock(c) : c \in Conns} /\ HasEvent(e[2], EVENT_READ)
    /\ LET c == e[1][2]
           received == SubSeq(inbox[c], 1, n)
           chunks == Chunks(in_buf[c], received)
           cmds == Front(chunks)
           rest == [inbox EXCEPT ![c] = Slice(@, n)]
       IN  IF fault = "recv"
           THEN \* sock.recv raises
                /\ eof[c] /\ n = 0
                /\ \E shut \in SUBSET clients : Abort("OSError", clients, shut, inbox)
                /\ UNCHANGED <<sel, ser_queue, buffers, history>>
           ELSE IF inbox[c] # <<>>
           THEN \* received is not empty
                /\ fault = "none" /\ n \in 1..Len(inbox[c])
                /\ in_buf' = [in_buf EXCEPT ![c] = Last(chunks)]
                /\ rcvd' = [rcvd EXCEPT ![c] = IF rec THEN @ \o received ELSE @]
                /\ joined' = IF rec /\ cmds # <<>> /\ in_buf[c] # <<>>
                              THEN joined \cup {c}
                              ELSE joined
                /\ IF cmds # <<>> /\ ser_queue = <<>> /\ ~CanRegister(SerialDev)
                   THEN \* sel.register raises KeyError
                        /\ \E shut \in SUBSET clients :
                              Abort("KeyError", clients, shut, rest)
                        /\ UNCHANGED <<sel, ser_queue, out_buf, rec, enq, gone,
                                       txn, last, sent>>
                   ELSE /\ sel' = IF cmds # <<>> /\ ser_queue = <<>>
                                  THEN Register(sel, SerialDev, EVENT_WRITE)
                                  ELSE sel
                        /\ ser_queue' = Submit(ser_queue, cmds, c)
                        /\ enq' = IF rec
                                  THEN enq \o [i \in 1..Len(cmds) |->
                                                 [cmd |-> cmds[i], conn |-> c]]
                                  ELSE enq
                        /\ inbox' = rest
                        /\ Return(e)
                        /\ UNCHANGED <<clients, out_buf, conn, backlog, eof,
                                       rec, gone, txn, last, sent>>
           ELSE \* empty bytes read: the socket is dead
                /\ n = 0
                /\ sel' = Unregister(sel, e[1])
                /\ IF c \notin clients
                   THEN \* self.clients.remove raises KeyError
                        /\ fault = "none"
                        /\ \E shut \in SUBSET clients :
                              Abort("KeyError", clients, shut, inbox)
                   ELSE IF fault = "shutdown"
                   THEN \* sock.shutdown raises
                        /\ eof[c]
                        /\ \E shut \in SUBSET (clients \ {c}) :
                              Abort("OSError", clients \ {c}, shut, inbox)
                   ELSE /\ clients' = clients \ {c}
                        /\ conn' = [conn EXCEPT ![c] = "closed"]
                        /\ Return(e)
                        /\ UNCHANGED <<backlog, inbox, eof>>
                /\ UNCHANGED <<ser_queue, buffers, history>>

\* a slip: out_buf kept whole after a send
KeepAll(buf, n) == buf

\* data.out_buf = data.out_buf[sent:]
KeepUnsent(buf, n) == Slice(buf, n)

\* client socket, EVENT_WRITE without EVENT_READ: n is the number of bytes
\* the transport can take, fault tells that send raises OSError
process_socket_send(e, n, fault) ==
    /\ Dispatch(e)
    /\ e[1] \in {ClientSock(c) : c \in Conns}
    /\ ~HasEvent(e[2], EVENT_READ) /\ HasEvent(e[2], EVENT_WRITE)
    /\ LET c == e[1][2]
           sent_n == IF n < Len(out_buf[c]) THEN n ELSE Len(out_buf[c])
       IN  IF fault
           THEN /\ eof[c] /\ n = MaxOut
                /\ \E shut \in SUBSET clients : Abort("OSError", clients, shut, inbox)
                /\ UNCHANGED <<sel, ser_queue, buffers, history>>
           ELSE /\ out_buf' = [out_buf EXCEPT ![c] = KeepUnsent(@, sent_n)]
                /\ sent' = [sent EXCEPT ![c] =
                              IF rec THEN @ \o SubSeq(out_buf[c], 1, sent_n) ELSE @]
                /\ sel' = IF out_buf'[c] = <<>>
                          THEN Modify(sel, e[1], EVENT_READ)
                          ELSE sel
                /\ Return(e)
                /\ UNCHANGED <<ser_queue, clients, in_buf, world>>
                /\ UNCHANGED <<rec, enq, gone, txn, last, rcvd, joined>>

(***************************************************************************)
(* process_serial                                                          *)
(***************************************************************************)
\* a slip: one ser.write(query) and no loop
WriteOnce(query, k) == SubSeq(query, 1, IF k < Len(query) THEN k ELSE Len(query))

\* while query: written = ser.write(query); query = query[written:]
\* with a device that accepts at most k bytes a call: the bytes the device
\* has been written when the loop ends
RECURSIVE WriteLoop(_, _)
WriteLoop(query, k) ==
    IF query = <<>> THEN <<>>
    ELSE LET written == IF k < Len(query) THEN k ELSE Len(query)
         IN  SubSeq(query, 1, written) \o WriteLoop(Slice(query, written), k)

\* reply.replace(self.eol_ser, self.eol_sock)
Translate(reply) == replace(reply, eol_ser, eol_sock)

\* a slip: one out_buf shared by all ClientBuffers objects
ExtendShared(bufs, clientbuf, reply) == [c \in DOMAIN bufs |-> bufs[c] \o reply]

\* clientbuf.out_buf.extend(reply)
Extend(bufs, clientbuf, reply) == [bufs EXCEPT ![clientbuf] = @ \o reply]

\* what ser.read_until(eol_ser) can return: a reply that ends with the
\* first eol_ser in it, or on timeout what has come, which may be nothing
DeviceReplies == {<<>>, <<"b">>, <<"b">> \o eol_ser}

\* the replies the model lets the device give for connection c: none that
\* would make out_buf longer than MaxOut
RepliesFor(c) ==
    {r \in DeviceReplies : r = <<>> \/ Len(out_buf[c]) + Len(Translate(r)) <= MaxOut}

\* the sizes of the partial writes the device accepts
WriteSizes == 1..3

\* a slip: data.pop(), which takes the query submitted last
PopNewest(data) == [item |-> Last(data), rest |-> Front(data)]

\* cmd, clientbuf = data.pop(0)
Pop(data) == [item |-> Head(data), rest |-> Tail(data)]

\* a slip: the test without "clientbuf.sock in self.clients"
ArmUnchecked(clientbuf) == out_buf[clientbuf] = <<>>

\* (not clientbuf.out_buf) and (clientbuf.sock in self.clients)
Arm(clientbuf) == out_buf[clientbuf] = <<>> /\ clientbuf \in clients

\* the record of a device transaction: the command, its connection, the
\* bytes put into out_buf, and whether the device answered
Transaction(item, out, ok) ==
    [cmd |-> item.cmd, conn |-> item.conn, out |-> out, ok |-> ok]

\* serial device, EVENT_WRITE: reply is what read_until returns, k the
\* size of the partial writes, fault tells that the device raises
process_serial(e, reply, k, fault) ==
    /\ Dispatch(e)
    /\ e[1] = SerialDev /\ HasEvent(e[2], EVENT_WRITE)
    /\ IF ser_queue = <<>>
       THEN \* data.pop(0) raises IndexError
            /\ reply = <<>> /\ k = 1 /\ ~fault
            /\ \E shut \in SUBSET clients : Abort("IndexError", clients, shut, inbox)
            /\ UNCHANGED <<sel, ser_queue, buffers, history>>
       ELSE LET cmd == Pop(ser_queue).item.cmd
                clientbuf == Pop(ser_queue).item.conn
                data == Pop(ser_queue).rest
                sel1 == IF data = <<>> THEN Unregister(sel, SerialDev) ELSE sel
                query == cmd \o eol_ser
                out == Translate(reply)
            IN  /\ ser_queue' = data
                /\ IF data = <<>> /\ ~CanUnregister(SerialDev)
                   THEN \* sel.unregister raises KeyError
                        /\ reply = <<>> /\ k = 1 /\ ~fault
                        /\ sel' = sel
                        /\ \E shut \in SUBSET clients :
                              Abort("KeyError", clients, shut, inbox)
                        /\ UNCHANGED <<buffers, history>>
                   ELSE IF fault
                   THEN \* ser.write, ser.flush or ser.read_until raises
                        /\ reply = <<>> /\ k = 1
                        /\ sel' = sel1
                        /\ txn' = IF rec
                                  THEN Append(txn, Transaction(Pop(ser_queue).item,
                                                               <<>>, FALSE))
                                  ELSE txn
                        /\ last' = IF rec THEN NoTransaction ELSE last
                        /\ \E shut \in SUBSET clients :
                              Abort("OSError", clients, shut, inbox)
                        /\ UNCHANGED <<buffers, rec, enq, gone, rcvd, joined, sent>>
                   ELSE /\ reply \in RepliesFor(clientbuf)
                        /\ txn' = IF rec
                                  THEN Append(txn, Transaction(Pop(ser_queue).item,
                                                               out, TRUE))
                                  ELSE txn
                        /\ last' = IF rec
                                   THEN [wrote |-> WriteLoop(query, k), reply |-> reply,
                                         active |-> clientbuf \in clients]
                                   ELSE last
                        /\ IF Arm(clientbuf) /\ ~CanUnregister(ClientSock(clientbuf))
                           THEN \* sel.modify raises KeyError
                                /\ sel' = sel1
                                /\ \E shut \in SUBSET clients :
                                      Abort("KeyError", clients, shut, inbox)
                                /\ UNCHANGED <<buffers, rec, enq, gone, rcvd, joined,
                                               sent>>
                           ELSE /\ sel' = IF Arm(clientbuf)
                                          THEN Modify(sel1, ClientSock(clientbuf),
                                                      EVENT_READ + EVENT_WRITE)
                                          ELSE sel1
                                /\ out_buf' = Extend(out_buf, clientbuf, out)
                                /\ Return(e)
                                /\ UNCHANGED <<clients, in_buf, world, rec, enq,
                                               gone, rcvd, joined, sent>>

(***************************************************************************)
(* The clients.                                                            *)
(***************************************************************************)
\* the bytes sent by all clients so far
BytesSent ==
    LET RECURSIVE Total(_)
        Total(c) == IF c = 0 THEN 0
                    ELSE Len(rcvd[c]) + Len(inbox[c]) + Total(c - 1)
    IN  Total(MaxConns)

\* the end-of-line markers sent by all clients so far, counted by their
\* last byte
LinesSent ==
    LET RECURSIVE Total(_)
        Total(c) ==
            IF c = 0 THEN 0
            ELSE Len(SelectSeq(rcvd[c] \o inbox[c],
                               LAMBDA x : x = Last(eol_sock)))
                 + Total(c - 1)
    IN  Total(MaxConns)

\* the end-of-line markers that wait in the receive buffers of the kernel
LinesWaiting ==
    LET RECURSIVE Total(_)
        Total(c) ==
            IF c = 0 THEN 0
            ELSE Len(SelectSeq(inbox[c], LAMBDA x : x = Last(eol_sock)))
                 + Total(c - 1)
    IN  Total(MaxConns)

\* a client connects to the listening socket
ClientConnect ==
    /\ serving /\ sock = "open"
    /\ backlog + Cardinality({c \in Conns : conn[c] # "new"}) < MaxConns
    /\ backlog' = backlog + 1
    /\ op' = "run"
    /\ raised' = "none"
    /\ UNCHANGED <<config, fields, buffers, loop, conn, inbox, eof, history>>

\* the client of connection c sends byte b; budget bounds the bytes all
\* clients send, MaxLines the commands sent and the commands that wait
ClientSend(c, b, budget) ==
    /\ serving /\ conn[c] = "open" /\ ~eof[c]
    /\ Len(inbox[c]) < MaxInbox
    /\ Len(in_buf[c]) + Len(inbox[c]) < budget
    /\ rec => BytesSent < budget
    /\ (rec /\ b = Last(eol_sock)) => LinesSent < MaxLines
    /\ b = Last(eol_sock) => Len(ser_queue) + LinesWaiting < MaxLines
    /\ inbox' = [inbox EXCEPT ![c] = Append(@, b)]
    /\ op' = "run"
    /\ raised' = "none"
    /\ UNCHANGED <<config, fields, buffers, loop, conn, backlog, eof, history>>

\* the client of connection c closes its end, or drops the connection
ClientClose(c) ==
    /\ serving /\ conn[c] = "open" /\ ~eof[c]
    /\ eof' = [eof EXCEPT ![c] = TRUE]
    /\ op' = "run"
    /\ raised' = "none"
    /\ UNCHANGED <<config, fields, buffers, loop, conn, backlog, inbox, history>>

(***************************************************************************)
(* The specifications.  They differ in the inputs they enumerate.          *)
(***************************************************************************)
\* the runs of the acquisition loop of open()
OpenRuns == SeqsUpTo(AttemptOutcomes, MaxAttempts)
\* a device that is there at once
GoodRuns == {<<[res |-> "ok", dt |-> 0]>>}

Lifecycle(runs, binds, fails, direct) ==
    \/ \E outs \in runs, bind_ok \in binds : open(outs, bind_ok)
    \/ \E fail \in fails : close(fail)
    \/ \E d \in direct : stop(d)

Clients(budget) ==
    \/ ClientConnect
    \/ \E c \in Conns, b \in alphabet : ClientSend(c, b, budget)
    \/ \E c \in Conns : ClientClose(c)

Serving(runs, binds, recvFaults, faults, sizes) ==
    \/ \E outs \in runs, bind_ok \in binds : serve_forever_enter(outs, bind_ok)
    \/ serve_forever_select
    \/ \E shut \in SUBSET Conns : serve_forever_exit(shut)
    \/ serve_forever_break
    \/ \E e \in events : process_socket_accept(e)
    \/ \E e \in events, n \in 0..MaxInbox, fault \in recvFaults :
          process_socket_recv(e, n, fault)
    \/ \E e \in events, n \in sizes, fault \in faults :
          process_socket_send(e, n, fault)
    \/ \E e \in events, reply \in DeviceReplies, k \in WriteSizes, fault \in faults :
          process_serial(e, reply, k, fault)

\* the serving of clients by a server that opens and closes without fault
Next ==
    \/ Lifecycle(GoodRuns, {TRUE}, {"none"}, {FALSE})
    \/ Serving(GoodRuns \cup {<<>>}, {TRUE}, RecvFaults, BOOLEAN, 0..MaxOut)
    \/ Clients(MaxBytes)

Spec == Init /\ [][Next]_vars

\* every call of open, close and stop at every moment, with every failure
\* of the device and of the sockets, around clients that send little
LifeInit == InitFields /\ rec = TRUE /\ \E cf \in {CrLf, NoGrace} : InitRest(cf)

LifeNext ==
    \/ Lifecycle(OpenRuns, BOOLEAN, CloseFailures \cup {"skip"}, {TRUE})
    \/ Serving(OpenRuns, BOOLEAN, RecvFaults, BOOLEAN, 0..MaxOut)
    \/ Clients(LifeBytes)

LifeSpec == LifeInit /\ [][LifeNext]_vars

\* the same, with a thread in serve_forever that keeps running: select()
\* returns after selector_timeout at the latest and every handler returns
\* or raises
LifeRunning ==
    pc = "serving" /\ Serving(OpenRuns, BOOLEAN, RecvFaults, BOOLEAN, 0..MaxOut)

FairLifeSpec == LifeSpec /\ WF_vars(LifeRunning)

\* clients that never stop sending, no history kept, a transport that takes
\* at least one byte a send, and a server thread that keeps running
LiveInit == InitFields /\ rec = FALSE /\ InitRest(CrLf)

LiveServing == Serving(GoodRuns \cup {<<>>}, {TRUE}, {"none"}, {FALSE}, 1..MaxOut)

LiveNext ==
    \/ Lifecycle(GoodRuns, {TRUE}, {"none"}, {FALSE})
    \/ LiveServing
    \/ Clients(LifeBytes)

LiveSpec == LiveInit /\ [][LiveNext]_vars /\ WF_vars(LiveServing)

(***************************************************************************)
(* Properties.                                                             *)
(***************************************************************************)
\* the (cmd, conn) pairs of the device transactions, in their order
Transacted == [i \in 1..Len(txn) |-> [cmd |-> txn[i].cmd, conn |-> txn[i].conn]]

\* the commands appended to ser_queue that no clear() has discarded
Kept == SelectSeq([i \in 1..Len(enq) |-> [at |-> i, item |-> enq[i]]],
                  LAMBDA x : x.at \notin gone)
KeptItems == [i \in 1..Len(Kept) |-> Kept[i].item]

\* C1: the commands process_serial has performed device transactions on,
\* followed by the commands still in ser_queue, are the commands appended
\* to ser_queue (and not discarded by a clear) in the order of their
\* appending, whichever client each came from: nothing is reordered,
\* skipped or done twice.
C1_FifoOrder == KeptItems = Transacted \o ser_queue

\* two clients have had a command each served, the later client first
C1_Witness ==
    /\ Len(txn) = 2 /\ ser_queue = <<>>
    /\ txn[1].conn = 2 /\ txn[2].conn = 1 /\ txn[1].ok /\ txn[2].ok

\* C2: a device transaction appends the reply to the out_buf of the
\* connection that enqueued the command and changes no other out_buf.
C2_ReplyRouting ==
    [][(Len(txn') = Len(txn) + 1 /\ txn'[Len(txn')].ok)
        => LET owner == KeptItems[Len(txn) + 1].conn
           IN  /\ out_buf'[owner] = out_buf[owner] \o txn'[Len(txn')].out
               /\ \A d \in Conns \ {owner} : out_buf'[d] = out_buf[d]]_vars

\* a reply has been routed to one of two connected clients
C2_Witness ==
    /\ clients = {1, 2}
    /\ Len(txn) = 1 /\ txn[1].conn = 2 /\ txn[1].ok
    /\ out_buf[2] # <<>> /\ out_buf[1] = <<>>

\* the out of the completed transactions of connection c, in order
RECURSIVE Outs(_, _)
Outs(q, c) ==
    IF q = <<>> THEN <<>>
    ELSE (IF Head(q).conn = c /\ Head(q).ok THEN <<Head(q).out>> ELSE <<>>)
         \o Outs(Tail(q), c)

\* C3: on a connection that is open, the bytes put into out_buf are as
\* many replies, each ended by eol_sock and nothing after the last, as
\* commands of the connection have been through a device transaction.
C3_OneReplyPerCommand ==
    \A c \in clients :
        LET replies == split(sent[c] \o out_buf[c], eol_sock)
        IN  /\ Len(replies) - 1 = Len(Outs(txn, c))
            /\ Last(replies) = <<>>

\* C4: when the reply arrives for a command whose connection has been
\* closed after a zero-byte read, the registration of the closed socket is
\* not touched, nothing is sent on it, no error is raised and the loop
\* goes on with the rest of the queue.
C4_DisconnectInFlight ==
    [][(Len(txn') = Len(txn) + 1 /\ txn'[Len(txn')].ok
        /\ conn[Head(ser_queue).conn] = "closed")
        => LET c == Head(ser_queue).conn
           IN  /\ sel'.keys[ClientSock(c)] = sel.keys[ClientSock(c)]
               /\ sent'[c] = sent[c]
               /\ raised' = "none"
               /\ pc' = "serving"
               /\ ser_queue' = Tail(ser_queue)]_vars

\* a reply came for a connection closed in between, and the command after
\* it has been served
C4_Witness ==
    /\ Len(txn) = 2 /\ txn[1].ok /\ txn[1].out # <<>>
    /\ conn[txn[1].conn] = "closed" /\ sent[txn[1].conn] = <<>>
    /\ out_buf[txn[1].conn] = txn[1].out
    /\ txn[2].ok /\ txn[2].conn # txn[1].conn /\ last.active
    /\ sel.keys[ClientSock(txn[1].conn)] = 0
    /\ serving

\* C5: the bytes transmitted on a connection followed by its out_buf are
\* the replies put into its out_buf, in order: a prefix has been sent, no
\* byte is lost, duplicated or reordered and the rest is still in out_buf.
C5_PartialWrite ==
    \A c \in Conns : sent[c] \o out_buf[c] = Concat(Outs(txn, c))

\* a reply was sent in part, and the next reply has joined the rest
C5_Witness ==
    \E c \in Conns :
        /\ Len(Outs(txn, c)) = 2
        /\ sent[c] # <<>> /\ Len(sent[c]) < Len(Outs(txn, c)[1])
        /\ Len(out_buf[c]) > Len(Outs(txn, c)[2])

\* the commands of connection c among q
CmdsOf(q, c) ==
    LET mine == SelectSeq(q, LAMBDA x : x.conn = c)
    IN  [i \in 1..Len(mine) |-> mine[i].cmd]

\* the values of an out_buf that holds bytes
Pending == SeqsUpTo({"b", "n"}, MaxOut) \ {<<>>}

\* C6: while the server is serving and the connection stays open, the bytes
\* of an out_buf do not wait for ever: no out_buf keeps one value that
\* holds bytes from some moment on, whatever the client goes on sending
\* (stated for a transport that takes at least one byte a send).
C6_PartialWriteDrain ==
    \A c \in Conns, B \in Pending :
        []<>~(out_buf[c] = B /\ serving /\ conn[c] = "open")

\* C7: the commands enqueued for a connection and its in_buf are those
\* the whole byte stream received gives when split at eol_sock at once,
\* however recv cut the stream.
C7_LineReassembly ==
    \A c \in Conns :
        /\ CmdsOf(enq, c) = Front(split(rcvd[c], eol_sock))
        /\ in_buf[c] = Last(split(rcvd[c], eol_sock))

\* "a" came in one recv and "a", eol in a later one: one command "aa"
C7_Witness ==
    \E c \in Conns :
        /\ c \in joined
        /\ rcvd[c] = <<"a", "a">> \o eol_sock
        /\ CmdsOf(enq, c) = << <<"a", "a">> >>
        /\ in_buf[c] = <<>>

\* a reply that ends with the first eol_ser in it
Terminated(r) == Find(r, eol_ser) # 0 /\ Find(r, eol_ser) = Len(r) - Len(eol_ser) + 1

\* C8: in every completed device transaction the device is written the
\* command followed by eol_ser, whatever the partial writes, and a reply
\* that ends with eol_ser goes into out_buf with eol_sock in its place.
C8_EolTranslation ==
    (txn # <<>> /\ Last(txn).ok) =>
        /\ last.wrote = Last(txn).cmd \o eol_ser
        /\ Terminated(last.reply) =>
              Last(txn).out = SubSeq(last.reply, 1, Len(last.reply) - Len(eol_ser))
                              \o eol_sock

\* command "a" was written as "a\r" and the reply "b\r" queued as "b\n"
C8_Witness ==
    /\ txn # <<>> /\ Last(txn).ok
    /\ Last(txn).cmd = <<"a">> /\ last.wrote = <<"a", "r">>
    /\ last.reply = <<"b", "r">> /\ Last(txn).out = <<"b", "n">>

\* C9: close() called while the server is serving raises RuntimeError and
\* changes none of _open, _serving, _shutdown_request, sel, serial, sock,
\* ser_queue and clients.
C9_CloseWhileServing ==
    [][(op' = "close" /\ serving)
          => (raised' = "RuntimeError" /\ UNCHANGED fields)]_vars

\* close() has just been refused on a server that serves a client and
\* holds a command
C9_Witness ==
    /\ op = "close" /\ raised = "RuntimeError" /\ serving
    /\ clients # {} /\ ser_queue # <<>>

\* C10: open() on a server that is open, close() on a server that is
\* closed and stop() on a server that is not serving change nothing of the
\* server, of its buffers, of its loop and of its sockets.
C10_LifecycleNoOps ==
    [][(\/ op' = "open" /\ is_open
        \/ op' = "close" /\ ~is_open
        \/ op' = "stop" /\ ~serving)
          => (raised' = "none" /\ UNCHANGED <<config, fields, buffers, loop, world>>)]_vars

\* stop() has just been called on a server that is open, has served and
\* does not serve now: no shutdown request is set
C10_Witness ==
    /\ op = "stop" /\ is_open /\ ~serving /\ ~shutdown_request
    /\ \E c \in Conns : conn[c] = "closed"

\* C11: once _shutdown_request is set in a serving server no handler runs
\* any more (no command leaves or enters ser_queue, no device transaction,
\* no accept, recv or send, no change of the selector), and serve_forever
\* returns with _serving cleared.
C11_CooperativeShutdown ==
    /\ [][(shutdown_request /\ serving)
             => /\ UNCHANGED <<ser_queue, sel, in_buf, out_buf, txn, sent>>
                /\ backlog' >= backlog
                /\ \/ /\ serving'
                      /\ UNCHANGED <<clients, conn>>
                      /\ \A c \in Conns : Len(inbox'[c]) >= Len(inbox[c])
                   \/ clients' = {} /\ pc' = "idle"]_vars
    /\ (shutdown_request /\ serving) ~> ~serving

\* serve_forever has returned after stop(), without an exception, with a
\* command still in the queue
C11_Witness ==
    /\ shutdown_request /\ ~serving /\ is_open /\ pc = "idle"
    /\ op = "run" /\ raised = "none" /\ ser_queue # <<>>

\* C12: when serve_forever ends, by stop() or by an exception of a handler,
\* every connection that was in clients is closed, clients is empty and
\* _serving is cleared.
C12_CleanupOnExit ==
    [][(serving /\ ~serving')
          => /\ \A c \in clients : conn'[c] = "closed"
             /\ clients' = {}]_vars

\* serve_forever ends with an OSError that is not of the device: the
\* handler that raised popped no command, so it is process_socket, and
\* the call that raised is recv, send or shutdown on a client socket
SocketFault ==
    /\ serving /\ ~serving'
    /\ raised' = "OSError"
    /\ UNCHANGED ser_queue

\* C13: an error of recv or send on a client socket does not end the
\* serving loop: the server stays serving.
C13_ConnectionFaultContained == [][~SocketFault]_vars

\* open() has run its body, directly or from serve_forever, and has not
\* got the device
AcquisitionFailed ==
    /\ op' \in {"open", "serve_forever"}
    /\ ~is_open /\ ~is_open'
    /\ serial' # "open"

\* C14: an open() that does not get the device, whatever the timeout,
\* leaves the server closed and raises the error of its last attempt (the
\* busy error when every attempt met a busy device), so it has made an
\* attempt.
C14_BusyOpenRetry ==
    [][AcquisitionFailed => raised' \in {"EBUSY", "EOTHER"}]_vars

\* C15: close() on a server that is open and not serving raises nothing
\* and leaves it closed with the selector released, the device closed,
\* ser_queue empty, the listening socket closed and every client closed
\* and out of clients, whichever step of the teardown fails.
C15_CloseReleasesAll ==
    [][(op' = "close" /\ is_open /\ ~serving)
          => /\ raised' = "none" /\ ~is_open'
             /\ sel' = NoSelector
             /\ serial' = "None"
             /\ ser_queue' = <<>>
             /\ sock' = "None"
             /\ clients' = {}
             /\ \A c \in clients : conn'[c] = "closed"]_vars

\* the serial device is registered with the selector
SerialRegistered == sel.keys[SerialDev] # 0

\* C16: in a server that is open, between two steps, the serial device is
\* registered for writing exactly when ser_queue holds a command.
C16_DeviceWriteInterest ==
    is_open => /\ SerialRegistered <=> ser_queue # <<>>
               /\ SerialRegistered => sel.keys[SerialDev] = EVENT_WRITE

\* serve_forever has ended on an exception of the device with a command
\* still queued, and the device is still registered
C16_Witness ==
    /\ is_open /\ ~serving /\ raised = "OSError"
    /\ ser_queue # <<>> /\ SerialRegistered /\ txn # <<>> /\ ~Last(txn).ok

\* C17: in open(), a failure to get the device that is not the busy error
\* ends the acquisition at that attempt: in every run of the loop a
\* non-busy failure is the last pass, the device is not got and the error
\* raised is that failure.
C17_NonBusyAborts ==
    \A outs \in OpenRuns :
        LET r == OpenLoop(outs, 0, "Exception", 0)
        IN  (r.done /\ \E i \in 1..Len(outs) : outs[i].res = "EOTHER")
               => /\ \A i \in 1..(Len(outs) - 1) : outs[i].res # "EOTHER"
                  /\ r.serial = "None"
                  /\ r.exc = "EOTHER"

\* C18: a server that is closed holds no open device and no open
\* listening socket.
C18_ClosedHoldsNothing == ~is_open => (serial # "open" /\ sock # "open")

\* C19: in a serving server, between two steps, every connection in
\* clients is registered for EVENT_READ, and for EVENT_WRITE as well
\* exactly when its out_buf holds bytes.
C19_ClientInterest ==
    serving =>
        \A c \in clients :
            sel.keys[ClientSock(c)] =
                (IF out_buf[c] # <<>> THEN EVENT_READ + EVENT_WRITE ELSE EVENT_READ)

\* the device transactions of connection c that put nothing into out_buf
EmptyReplies(c) == {i \in 1..Len(txn) : txn[i].conn = c /\ txn[i].out = <<>>}

\* C19, amended: in a serving server every connection in clients is
\* registered for EVENT_READ, and for EVENT_WRITE whenever its out_buf
\* holds bytes; it is registered for EVENT_WRITE with an empty out_buf only
\* after a device transaction of its own that put nothing into out_buf.
C19_ClientInterestAmended ==
    serving =>
        \A c \in clients :
            /\ HasEvent(sel.keys[ClientSock(c)], EVENT_READ)
            /\ out_buf[c] # <<>> => HasEvent(sel.keys[ClientSock(c)], EVENT_WRITE)
            /\ (HasEvent(sel.keys[ClientSock(c)], EVENT_WRITE) /\ out_buf[c] = <<>>)
                  => EmptyReplies(c) # {}

\* a connection with a reply waiting in out_buf and armed for writing, and
\* another armed for writing by an empty reply
C19_Witness ==
    /\ serving /\ clients = Conns
    /\ \E c, d \in clients :
          /\ out_buf[c] # <<>> /\ sel.keys[ClientSock(c)] = EVENT_READ + EVENT_WRITE
          /\ out_buf[d] = <<>> /\ sel.keys[ClientSock(d)] = EVENT_READ + EVENT_WRITE

\* C20: a server that is not serving has no shutdown request pending, so
\* a serve_forever called after one that stop() ended runs its loop.
C20_ShutdownFlagClear == ~serving => ~shutdown_request

====
